---- MODULE Spec2Model ----
(***************************************************************************)
(* Model of models/dvinetp.py (class Model): the shingle preparation, the  *)
(* embedding network's tensor plumbing, the metric-learning loss and the   *)
(* pairwise scoring API.                                                   *)
(*                                                                         *)
(* Tensors are functions over 0-based index ranges.  Real numbers are      *)
(* exact rationals [n, d] in lowest terms; the only irrational operation,  *)
(* the square root, is taken in fixed point with Q quanta per unit.        *)
(* An optional argument is <<>> (None) or <<value>>.                       *)
(***************************************************************************)
EXTENDS Integers, Sequences, FiniteSets, TLC

VARIABLES pc, op, conf, weights, args, ret

vars == <<pc, op, conf, weights, args, ret>>

---------------------------------------------------------------------------
(* Bounds of the model.                                                    *)

\* largest batch size of a call
MaxB == 3
\* largest number of shingles per item
MaxS == 2
\* largest embedding dimension (zdim)
MaxC == 2
\* fixed-point quanta per unit for square roots
Q == 10
\* the constructor's eps is 1 / EpsInv
EpsInv == 100
\* the constructor's sr (samples per second)
SR == 3
\* longest waveform of a call, in samples
MaxT == 5
\* the eps of torch's normalize is 1 / NormEpsInv
NormEpsInv == 4

---------------------------------------------------------------------------
(* Arithmetic.                                                             *)

Abs(x) == IF x < 0 THEN -x ELSE x

Max2(a, b) == IF a >= b THEN a ELSE b

RECURSIVE GCD(_, _)
GCD(a, b) == IF b = 0 THEN a ELSE GCD(b, a % b)

\* the rational n/d, d > 0, in lowest terms
R(n, d) ==
    LET g == GCD(Abs(n), d)
    IN  [n |-> n \div g, d |-> d \div g]

RInt(k) == [n |-> k, d |-> 1]

RAdd(x, y) ==
    LET l == (x.d \div GCD(x.d, y.d)) * y.d
    IN  R(x.n * (l \div x.d) + y.n * (l \div y.d), l)

RNeg(x) == [n |-> -x.n, d |-> x.d]

RSub(x, y) == RAdd(x, RNeg(y))

RMul(x, y) ==
    LET a == R(x.n, y.d)
        b == R(y.n, x.d)
    IN  R(a.n * b.n, a.d * b.d)

RDivInt(x, k) == RMul(x, R(1, k))

RLe(x, y) == RSub(x, y).n <= 0

RLt(x, y) == RSub(x, y).n < 0

RMax(x, y) == IF RLe(y, x) THEN x ELSE y

RMin(x, y) == IF RLe(x, y) THEN x ELSE y

RECURSIVE ISqrtFrom(_, _)
ISqrtFrom(n, r) == IF (r + 1) * (r + 1) > n THEN r ELSE ISqrtFrom(n, r + 1)

\* floor of the square root
ISqrt(n) == ISqrtFrom(n, 0)

RECURSIVE SumSeq(_)
SumSeq(s) == IF s = <<>> THEN 0 ELSE Head(s) + SumSeq(Tail(s))

Dot(x, y) == SumSeq([k \in 1..Len(x) |-> x[k] * y[k]])

SqNorm(x) == Dot(x, x)

\* the sum, maximum and minimum of f over the finite index set I (rationals)
RECURSIVE RSum(_, _)
RSum(f, I) ==
    IF I = {} THEN RInt(0)
    ELSE LET k == CHOOSE k \in I : TRUE
         IN  RAdd(f[k], RSum(f, I \ {k}))

RECURSIVE RMaxOver(_, _)
RMaxOver(f, I) ==
    LET k == CHOOSE k \in I : TRUE
    IN  IF I = {k} THEN f[k] ELSE RMax(f[k], RMaxOver(f, I \ {k}))

RECURSIVE RMinOver(_, _)
RMinOver(f, I) ==
    LET k == CHOOSE k \in I : TRUE
    IN  IF I = {k} THEN f[k] ELSE RMin(f[k], RMinOver(f, I \ {k}))

---------------------------------------------------------------------------
(* Optional values and tensor shapes.                                      *)

None == <<>>

IsNone(o) == Len(o) = 0

Val(o) == o[1]

\* x.size(0) and x.size(1) of a tensor indexed from 0
Size0(x) == Cardinality(DOMAIN x)

Size1(x) == Cardinality(DOMAIN x[0])

Idx(n) == 0..(n - 1)

\* rearrange(x, "b s ... -> (b s) ...")
Flatten(x) ==
    LET s == Size1(x)
    IN  [k \in Idx(Size0(x) * s) |-> x[k \div s][k % s]]

\* rearrange(x, "(b s) ... -> b s ...", s=s)
Unflatten(x, s) ==
    [i \in Idx(Size0(x) \div s) |-> [a \in Idx(s) |-> x[i * s + a]]]

\* rearrange(d, "(b1 s1) (b2 s2) -> b1 b2 s1 s2", s1=s1, s2=s2)
Unflatten4(d, s1, s2) ==
    [i \in Idx(Size0(d) \div s1) |->
        [j \in Idx(Size1(d) \div s2) |->
            [a \in Idx(s1) |-> [b \in Idx(s2) |-> d[i * s1 + a][j * s2 + b]]]]]

---------------------------------------------------------------------------
(* lib.tensor_ops: pairwise distances and their reduction.                 *)

\* 1 - cosine similarity, in fixed point
CosDist(x, y) ==
    R(Q - ((Dot(x, y) * Q * Q) \div ISqrt(SqNorm(x) * SqNorm(y) * Q * Q)), Q)

\* Euclidean distance, in fixed point
EucDist(x, y) ==
    R(ISqrt(SqNorm([k \in 1..Len(x) |-> x[k] - y[k]]) * Q * Q), Q)

\* dot-product similarity
DotSim(x, y) == RInt(Dot(x, y))

pairwise_distance_matrix(x, y, mode) ==
    [k \in DOMAIN x |-> [l \in DOMAIN y |->
        CASE mode = "cos" -> CosDist(x[k], y[l])
          [] mode = "euc" -> EucDist(x[k], y[l])
          [] mode = "dotsim" -> DotSim(x[k], y[l])]]

\* the value n/0 stands for the reduction of no element at all
Inf == [n |-> 1, d |-> 0]

\* reduce the shingle axes of a (b1, b2, s1, s2) tensor; entries whose mask
\* is true are left out
distance_tensor_redux(d, redux, mask) ==
    [i \in DOMAIN d |-> [j \in DOMAIN d[i] |->
        LET P == {p \in (DOMAIN d[i][j]) \X (DOMAIN d[i][j][0]) :
                     IsNone(mask) \/ ~Val(mask)[i][j][p[1]][p[2]]}
            f == [p \in P |-> d[i][j][p[1]][p[2]]]
        IN  IF P = {} THEN Inf
            ELSE CASE redux = "min" -> RMinOver(f, P)
                   [] redux = "max" -> RMaxOver(f, P)
                   [] redux = "mean" -> RDivInt(RSum(f, P), Cardinality(P))]]

---------------------------------------------------------------------------
(* Input tensors of the calls.                                             *)

\* embedding vectors of dimension 2 at 0, 45, 90 and 180 degrees
Palette == << <<1, 0>>, <<1, 1>>, <<0, 1>>, <<-1, 0>> >>

\* a (b, s) batch whose flat row k is Palette[seed + k], cyclically
GenBatch(b, s, seed) ==
    [i \in Idx(b) |-> [a \in Idx(s) |->
        Palette[((seed + i * s + a) % Len(Palette)) + 1]]]

\* a (b, s) mask: flat position k is masked when k % 2 = phase
GenMask(b, s, phase) ==
    [i \in Idx(b) |-> [a \in Idx(s) |-> (i * s + a) % 2 = phase]]

\* redux_strategy: None, or the name of a reduction
Strategies == {"None", "mean", "max"}

---------------------------------------------------------------------------
(* Model.distances                                                         *)

\* a slip: the two shingle masks combined with "and"
DistancesMask_and(qmask, cmask, s1, s2) ==
    IF ~IsNone(qmask) /\ ~IsNone(cmask)
    THEN LET qm == Flatten(Val(qmask))
             cm == Flatten(Val(cmask))
             m  == [k \in DOMAIN qm |-> [l \in DOMAIN cm |-> qm[k] /\ cm[l]]]
         IN  <<Unflatten4(m, s1, s2)>>
    ELSE None

\* lines 206-212: the mask handed to the reduction
DistancesMask(qmask, cmask, s1, s2) ==
    IF ~IsNone(qmask) /\ ~IsNone(cmask)
    THEN LET qm == Flatten(Val(qmask))
             cm == Flatten(Val(cmask))
             m  == [k \in DOMAIN qm |-> [l \in DOMAIN cm |-> qm[k] \/ cm[l]]]
         IN  <<Unflatten4(m, s1, s2)>>
    ELSE None

\* lines 199-200
DistancesStrategy(redux_strategy) ==
    IF redux_strategy = "None" THEN "min" ELSE redux_strategy

\* a slip: the flat axes read as "(s1 b1) (s2 b2)"
DistancesTensor_sb(q, c) ==
    LET s1 == Size1(q)
        s2 == Size1(c)
        b1 == Size0(q)
        b2 == Size0(c)
        d  == pairwise_distance_matrix(Flatten(q), Flatten(c), "cos")
    IN  [i \in Idx(b1) |-> [j \in Idx(b2) |->
            [a \in Idx(s1) |-> [b \in Idx(s2) |-> d[a * b1 + i][b * b2 + j]]]]]

\* lines 201-205: the (b1, b2, s1, s2) tensor of per-shingle distances
DistancesTensor(q, c) ==
    LET s1 == Size1(q)
        s2 == Size1(c)
        qf == Flatten(q)
        cf == Flatten(c)
    IN  Unflatten4(pairwise_distance_matrix(qf, cf, "cos"), s1, s2)

distances(q, c, qmask, cmask, redux_strategy) ==
    LET dist == DistancesTensor(q, c)
        mask == DistancesMask(qmask, cmask, Size1(q), Size1(c))
    IN  [dist4 |-> dist,
         mask |-> mask,
         out |-> distance_tensor_redux(dist, DistancesStrategy(redux_strategy), mask)]

CallDistances ==
    /\ pc = "idle"
    /\ \E b1 \in 1..MaxB, b2 \in 1..MaxB, s1 \in 1..MaxS, s2 \in 1..MaxS :
       \E qs \in 0..1, cs \in 0..2,
          qm \in {None} \cup {<<GenMask(b1, s1, ph)>> : ph \in 0..1},
          cm \in {None, <<GenMask(b2, s2, 1)>>},
          rs \in Strategies :
            LET q == GenBatch(b1, s1, qs)
                c == GenBatch(b2, s2, cs)
            IN  /\ args' = [q |-> q, c |-> c, qmask |-> qm, cmask |-> cm,
                            redux_strategy |-> rs]
                /\ ret' = distances(q, c, qm, cm, rs)
    /\ op' = "distances"
    /\ pc' = "done"
    /\ UNCHANGED <<conf, weights>>

---------------------------------------------------------------------------
(* Model.loss                                                              *)

RDiv(x, y) == RMul(x, [n |-> y.d, d |-> y.n])

\* self.relu
Relu(x) == RMax(x, RInt(0))

\* L2-normalized vectors of dimension c: e1, -e1 and, from dimension 2, e2
UnitVec(c, k, sign) == [m \in 1..c |-> IF m = k THEN sign ELSE 0]

ZPalette(c) ==
    IF c = 1 THEN <<UnitVec(c, 1, 1), UnitVec(c, 1, -1)>>
    ELSE <<UnitVec(c, 1, 1), UnitVec(c, 1, -1), UnitVec(c, 2, 1)>>

\* a (b, s, c) batch: item i has the vectors base[i], base[i] + step, ...
\* of the palette, cyclically
GenZ(base, s, c, step) ==
    [i \in DOMAIN base |-> [a \in Idx(s) |->
        ZPalette(c)[((base[i] + a * step) % Len(ZPalette(c))) + 1]]]

\* a slip: the diagonal left in the positive mask
LossMasks_diag(label) ==
    LET same_label == [i \in DOMAIN label |-> [j \in DOMAIN label |-> label[i] = label[j]]]
        diagonal == [i \in DOMAIN label |-> [j \in DOMAIN label |-> i = j]]
    IN  [positive |-> same_label,
         negative |-> [i \in DOMAIN label |-> [j \in DOMAIN label |->
                          ~same_label[i][j] /\ ~diagonal[i][j]]]]

\* lines 159-162
LossMasks(label) ==
    LET same_label == [i \in DOMAIN label |-> [j \in DOMAIN label |-> label[i] = label[j]]]
        diagonal == [i \in DOMAIN label |-> [j \in DOMAIN label |-> i = j]]
    IN  [positive |-> [i \in DOMAIN label |-> [j \in DOMAIN label |->
                          same_label[i][j] /\ ~diagonal[i][j]]],
         negative |-> [i \in DOMAIN label |-> [j \in DOMAIN label |->
                          ~same_label[i][j] /\ ~diagonal[i][j]]]]

\* line 163: 1.1 * math.sqrt(2 * z.size(1)), z already flattened to (b s) c
Dlimit(c) == R(11 * ISqrt(2 * c * Q * Q), 10 * Q)

\* lines 165-167 and 173-175: the (b, b) matrix of mean-reduced values
LossMatrix(zf, sz, mode) ==
    distance_tensor_redux(
        Unflatten4(pairwise_distance_matrix(zf, zf, mode), sz, sz), "mean", None)

\* lines 168-170
LossTriplet(masks, dist, dlimit, margin) ==
    LET I == DOMAIN dist
        dpos == [i \in I |-> RMaxOver(
                    [j \in I |-> IF masks.positive[i][j] THEN dist[i][j]
                                  ELSE RNeg(dlimit)], I)]
        dneg == [i \in I |-> RMinOver(
                    [j \in I |-> IF masks.negative[i][j] THEN dist[i][j]
                                  ELSE dlimit], I)]
        term == [i \in I |-> Relu(RAdd(RSub(dpos[i], dneg[i]), margin))]
    IN  [dpos |-> dpos, dneg |-> dneg, term |-> term,
         loss_trip |-> RDivInt(RSum(term, I), Cardinality(I))]

\* a slip: the regularizer taken over every off-diagonal pair
LossReg_all(masks, sim, eps) ==
    LET I == DOMAIN sim
        P == {p \in I \X I : p[1] # p[2]}
        den == RAdd(RInt(Cardinality(P)), eps)
    IN  [den |-> den,
         loss_reg |-> RDiv(RSum([p \in P |-> RMul(sim[p[1]][p[2]], sim[p[1]][p[2]])], P),
                           den)]

\* line 176
LossReg(masks, sim, eps) ==
    LET I == DOMAIN sim
        P == {p \in I \X I : masks.negative[p[1]][p[2]]}
        den == RAdd(RInt(Cardinality(P)), eps)
    IN  [den |-> den,
         loss_reg |-> RDiv(RSum([p \in P |-> RMul(sim[p[1]][p[2]], sim[p[1]][p[2]])], P),
                           den)]

\* lines 157-186
loss(label, z, margin, lamb, eps) ==
    LET sz == Size1(z)
        zf == Flatten(z)
        masks == LossMasks(label)
        dlimit == Dlimit(Len(zf[0]))
        dist == LossMatrix(zf, sz, "euc")
        trip == LossTriplet(masks, dist, dlimit, margin)
        sim == LossMatrix(zf, sz, "dotsim")
        reg == LossReg(masks, sim, eps)
        total == RAdd(trip.loss_trip, RMul(lamb, reg.loss_reg))
    IN  [loss |-> total,
         logd |-> [l_main |-> total,
                   l_cont |-> trip.loss_trip,
                   l_cent |-> reg.loss_reg,
                   v_dneg |-> RDivInt(RSum(trip.dneg, DOMAIN label), Size0(label)),
                   v_dpos |-> RDivInt(RSum(trip.dpos, DOMAIN label), Size0(label))],
         positive |-> masks.positive,
         negative |-> masks.negative,
         dlimit |-> dlimit,
         dist |-> dist,
         dpos |-> trip.dpos,
         dneg |-> trip.dneg,
         term |-> trip.term,
         regden |-> reg.den]

\* the labels of a batch; only their equality counts, so the first item's
\* label is always 0
Labels == 0..1

\* line 155: the three arguments must agree in length
CallLoss ==
    /\ pc = "idle"
    /\ \E b \in 1..MaxB, s \in 1..MaxS, c \in 1..MaxC, step \in 0..1, nidx \in 0..1 :
       \E base \in [Idx(b) -> Idx(Len(ZPalette(c)))], label \in [Idx(b) -> Labels] :
            LET z == GenZ(base, s, c, step)
            IN  /\ label[0] = 0
                /\ (s = 1) => (step = 0)
                /\ IF nidx = 1
                   THEN /\ s = 1 /\ c = 1
                        /\ args' = [label |-> label, idx |-> b + 1, z |-> z]
                        /\ ret' = [error |-> "AssertionError"]
                        /\ pc' = "failed"
                   ELSE /\ args' = [label |-> label, idx |-> b, z |-> z]
                        /\ ret' = loss(label, z, conf.margin, conf.lamb, R(1, EpsInv))
                        /\ pc' = "done"
    /\ op' = "loss"
    /\ UNCHANGED <<conf, weights>>

---------------------------------------------------------------------------
(* lib.tensor_ops: framing and length forcing.                             *)

\* int(x) of a rational x >= 0
IntOf(x) == x.n \div x.d

\* the frames of length win, hop apart, of one waveform w (a sequence); the
\* waveform is zero-padded on the right so that the last frame is complete
FramesOf(w, win, hop) ==
    LET n == IF Len(w) <= win THEN 1 ELSE ((Len(w) - win + hop - 1) \div hop) + 1
    IN  [f \in Idx(n) |-> [t \in 1..win |->
            IF f * hop + t <= Len(w) THEN w[f * hop + t] ELSE 0]]

\* get_frames(h, win, hop, pad_mode="zeros"): (b, t) -> (b, s, win)
get_frames(h, win, hop) == [i \in DOMAIN h |-> FramesOf(h[i], win, hop)]

\* force_length(x, length, dim=-1, pad_mode="zeros", allow_longer=...) of
\* one row: zeros appended up to length; a longer row is cut unless
\* allow_longer
ForceRow(x, length, allow_longer) ==
    IF Len(x) < length THEN [t \in 1..length |-> IF t <= Len(x) THEN x[t] ELSE 0]
    ELSE IF Len(x) > length /\ ~allow_longer THEN SubSeq(x, 1, length)
    ELSE x

force_length(h, length, allow_longer) ==
    [i \in DOMAIN h |-> [f \in DOMAIN h[i] |-> ForceRow(h[i][f], length, allow_longer)]]

---------------------------------------------------------------------------
(* Model.prepare and Model.get_shingle_params                              *)

\* nnAudio's CQT followed by the average pool, row by row: the magnitudes of
\* a row stand for its pooled spectrogram (one channel)
CqtPool(x) == [t \in 1..Len(x) |-> Abs(x[t])]

\* line 83
get_shingle_params == <<conf.len, conf.hop>>

\* a slip: a zero shingle_len accepted
PrepareAsserts_ge(ndim, shingle_len, shingle_hop) ==
    /\ ndim = 2
    /\ IsNone(shingle_len) \/ Val(shingle_len).n >= 0
    /\ IsNone(shingle_hop) \/ Val(shingle_hop).n > 0

\* lines 105-107
PrepareAsserts(ndim, shingle_len, shingle_hop) ==
    /\ ndim = 2
    /\ IsNone(shingle_len) \/ Val(shingle_len).n > 0
    /\ IsNone(shingle_hop) \/ Val(shingle_hop).n > 0

\* lines 108-109
PrepareParams(shingle_len, shingle_hop) ==
    [slen |-> IF IsNone(shingle_len) THEN conf.len ELSE Val(shingle_len),
     shop |-> IF IsNone(shingle_hop) THEN conf.hop ELSE Val(shingle_hop)]

\* line 16: self.minlen
minlen == conf.len

\* a slip: longer shingles cut to the minimum
PrepareForce_cut(frames) ==
    force_length(frames, IntOf(RMul(RInt(SR), minlen)), FALSE)

\* lines 115-117
PrepareForce(frames) ==
    force_length(frames, IntOf(RMul(RInt(SR), minlen)), TRUE)

\* lines 108-124, after the assertions
prepare(h, shingle_len, shingle_hop) ==
    LET par == PrepareParams(shingle_len, shingle_hop)
        frames == get_frames(h, IntOf(RMul(RInt(SR), par.slen)),
                             IntOf(RMul(RInt(SR), par.shop)))
        forced == PrepareForce(frames)
        s == Size1(forced)
        flat == Flatten(forced)
        spec == [k \in DOMAIN flat |-> CqtPool(flat[k])]
    IN  [slen |-> par.slen,
         shop |-> par.shop,
         shingles |-> forced,
         out |-> Unflatten(spec, s),
         stages |-> <<"get_frames", "force_length", "cqt", "cqtpool">>]

\* the (b, t) waveform whose every sample is a different nonzero number
Waveform(b, t) == [i \in Idx(b) |-> [k \in 1..t |-> i * t + k]]

\* shingle_len and shingle_hop overrides, in seconds
LenArgs == {None, <<R(-1, 1)>>, <<RInt(0)>>, <<R(2, 3)>>, <<RInt(1)>>, <<RInt(2)>>}

HopArgs == {None, <<R(-1, 2)>>, <<RInt(0)>>, <<R(1, 3)>>, <<RInt(1)>>}

CallPrepare ==
    /\ pc = "idle"
    /\ \E ndim \in 1..3, b \in 1..MaxB, t \in 1..MaxT,
          shingle_len \in LenArgs, shingle_hop \in HopArgs :
            LET h == IF ndim = 2 THEN Waveform(b, t) ELSE <<>>
            IN  /\ ndim # 2 => (b = 1 /\ t = 1)
                /\ args' = [ndim |-> ndim, h |-> h,
                            shingle_len |-> shingle_len, shingle_hop |-> shingle_hop]
                /\ IF PrepareAsserts(ndim, shingle_len, shingle_hop)
                   THEN /\ ret' = prepare(h, shingle_len, shingle_hop)
                        /\ pc' = "done"
                   ELSE /\ ret' = [error |-> "AssertionError", stages |-> <<>>]
                        /\ pc' = "failed"
    /\ op' = "prepare"
    /\ UNCHANGED <<conf, weights>>

CallGetShingleParams ==
    /\ pc = "idle"
    /\ args' = <<>>
    /\ ret' = get_shingle_params
    /\ op' = "get_shingle_params"
    /\ pc' = "done"
    /\ UNCHANGED <<conf, weights>>

---------------------------------------------------------------------------
(* Model.embed and Model.forward                                           *)
(*                                                                         *)
(* A spectrogram row is a sequence of magnitudes (one channel).  The five  *)
(* convolution blocks are torch layers with learned weights: they are kept *)
(* as one bias-free tap over the row, a batch-norm shift (evaluation mode, *)
(* so each row is processed on its own) and the ReLU, which is what makes  *)
(* the pooled feature non-negative.  An embedding is kept exactly, as the  *)
(* projection vec and the square den2 of the norm it was divided by.       *)

RECURSIVE SumR(_)
SumR(s) == IF s = <<>> THEN RInt(0) ELSE RAdd(Head(s), SumR(Tail(s)))

RECURSIVE MaxSeq(_)
MaxSeq(s) == IF s = <<>> THEN 0 ELSE Max2(Head(s), MaxSeq(Tail(s)))

SqNormR(v) == SumR([m \in 1..Len(v) |-> RMul(v[m], v[m])])

\* line 133: h / (h.abs().max(1).max(2) + eps), for one row
RowScale(x, eps) ==
    LET top == RAdd(RInt(MaxSeq([t \in 1..Len(x) |-> Abs(x[t])])), eps)
    IN  [t \in 1..Len(x) |-> RDiv(RInt(x[t]), top)]

\* lines 134-140: block1 .. block5 and the squeeze, for one row
Blocks(x) == Relu(RAdd(SumR(x), weights.shift))

\* line 141: self.fc
Fc(x) == [m \in 1..Len(weights.fcw) |->
            RAdd(RMul(RInt(weights.fcw[m]), x), RInt(weights.fcb[m]))]

\* the eps of torch.nn.functional.normalize is 1 / NormEpsInv
NormEps2 == R(1, NormEpsInv * NormEpsInv)

\* a slip: the projection returned as it is
Normalize_none(v) == [vec |-> v, den2 |-> RInt(1)]

\* line 142: v / max(||v||, eps)
Normalize(v) == [vec |-> v, den2 |-> RMax(SqNormR(v), NormEps2)]

\* lines 133-142 for one flat row
EmbedRow(x) == Normalize(Fc(Blocks(RowScale(x, R(1, EpsInv)))))

\* a slip: the flat rows read back as "(s b) c"
EmbedUnflatten_sb(e, s) ==
    LET b == Size0(e) \div s
    IN  [i \in Idx(b) |-> [a \in Idx(s) |-> e[a * b + i]]]

\* line 143
EmbedUnflatten(e, s) == Unflatten(e, s)

\* lines 131-144, after the assertion
embed(h) ==
    LET s == Size1(h)
        flat == Flatten(h)
    IN  EmbedUnflatten([k \in DOMAIN flat |-> EmbedRow(flat[k])], s)

\* spectrogram rows, the silent one among them
SpecRows == << <<0, 0>>, <<1, 0>>, <<1, 1>>, <<2, 1>>, <<0, 3>> >>

\* a (b, s, c, t) spectrogram batch whose flat row k is SpecRows[seed + k],
\* cyclically
GenSpec(b, s, seed) ==
    [i \in Idx(b) |-> [a \in Idx(s) |->
        SpecRows[((seed + i * s + a) % Len(SpecRows)) + 1]]]

\* line 130: the input must have four dimensions
CallEmbed ==
    /\ pc = "idle"
    /\ \E ndim \in 3..4, b \in 1..MaxB, s \in 1..MaxS, seed \in Idx(Len(SpecRows)) :
            LET h == GenSpec(b, s, seed)
            IN  /\ args' = [ndim |-> ndim, h |-> h]
                /\ IF ndim = 4
                   THEN /\ ret' = [out |-> embed(h)]
                        /\ pc' = "done"
                   ELSE /\ ret' = [error |-> "AssertionError"]
                        /\ pc' = "failed"
    /\ op' = "embed"
    /\ UNCHANGED <<conf, weights>>

\* a (b, t) waveform of the samples 1, 2, 3, 1, ... running through the batch
Tone(b, t) == [i \in Idx(b) |-> [k \in 1..t |-> ((i * t + k - 1) % 3) + 1]]

\* lines 93-97: prepare, clone, embed
CallForward ==
    /\ pc = "idle"
    /\ \E ndim \in 1..2, b \in 1..MaxB, t \in 1..MaxT,
          shingle_len \in {None, <<RInt(0)>>, <<R(2, 3)>>},
          shingle_hop \in {None, <<R(1, 3)>>} :
            LET h == IF ndim = 2 THEN Tone(b, t) ELSE <<>>
            IN  /\ ndim # 2 => (b = 1 /\ t = 1)
                /\ args' = [ndim |-> ndim, h |-> h,
                            shingle_len |-> shingle_len, shingle_hop |-> shingle_hop]
                /\ IF PrepareAsserts(ndim, shingle_len, shingle_hop)
                   THEN LET p == prepare(h, shingle_len, shingle_hop)
                        IN  /\ ret' = [out |-> embed(p.out), shingles |-> p.shingles]
                            /\ pc' = "done"
                   ELSE /\ ret' = [error |-> "AssertionError"]
                        /\ pc' = "failed"
    /\ op' = "forward"
    /\ UNCHANGED <<conf, weights>>

---------------------------------------------------------------------------
(* Claims about Model.distances.                                           *)

DistancesDone == pc = "done" /\ op = "distances"

\* the cosine distances between the shingles of query i and candidate j
PairDists(q, c, i, j) ==
    {CosDist(q[i][a], c[j][b]) : a \in DOMAIN q[i], b \in DOMAIN c[j]}

\* C1: distances(q, c) is a B x B' matrix; position [i, j, a, b] of the
\* unflattened tensor holds the cosine distance between shingle a of query i
\* and shingle b of candidate j, and without a mask entry (i, j) of the result
\* is the least of these S1*S2 distances when redux_strategy is None.
C1_DistancesEntries ==
    DistancesDone =>
        LET q == args.q
            c == args.c
        IN  /\ DOMAIN ret.out = DOMAIN q
            /\ DOMAIN ret.dist4 = DOMAIN q
            /\ \A i \in DOMAIN q :
                /\ DOMAIN ret.out[i] = DOMAIN c
                /\ DOMAIN ret.dist4[i] = DOMAIN c
                /\ \A j \in DOMAIN c :
                    /\ DOMAIN ret.dist4[i][j] = DOMAIN q[i]
                    /\ \A a \in DOMAIN q[i] :
                        /\ DOMAIN ret.dist4[i][j][a] = DOMAIN c[j]
                        /\ \A b \in DOMAIN c[j] :
                            ret.dist4[i][j][a][b] = CosDist(q[i][a], c[j][b])
                    /\ (args.redux_strategy = "None" /\ IsNone(ret.mask)) =>
                        /\ ret.out[i][j] \in PairDists(q, c, i, j)
                        /\ \A v \in PairDists(q, c, i, j) : RLe(ret.out[i][j], v)

\* a call with S1 # S2, B # B', the default strategy, no mask, and a result
\* that is not constant
C1_Witness ==
    /\ DistancesDone
    /\ Size0(args.q) # Size0(args.c)
    /\ Size1(args.q) # Size1(args.c)
    /\ args.redux_strategy = "None"
    /\ IsNone(ret.mask)
    /\ \E i \in DOMAIN ret.out : \E j, k \in DOMAIN ret.out[i] :
           ret.out[i][j] # ret.out[i][k]

\* C2: a mask reaches the reduction exactly when both qmask and cmask are
\* given, and then its entry [i, j, a, b] is qmask[i, a] or cmask[j, b];
\* otherwise the reduction gets no mask and the result is the unmasked one.
C2_OptionalMasks ==
    DistancesDone =>
        LET both == ~IsNone(args.qmask) /\ ~IsNone(args.cmask)
        IN  /\ ~IsNone(ret.mask) <=> both
            /\ both =>
                LET qm == Val(args.qmask)
                    cm == Val(args.cmask)
                    m  == Val(ret.mask)
                IN  /\ DOMAIN m = DOMAIN qm
                    /\ \A i \in DOMAIN qm :
                        /\ DOMAIN m[i] = DOMAIN cm
                        /\ \A j \in DOMAIN cm :
                            /\ DOMAIN m[i][j] = DOMAIN qm[i]
                            /\ \A a \in DOMAIN qm[i] :
                                /\ DOMAIN m[i][j][a] = DOMAIN cm[j]
                                /\ \A b \in DOMAIN cm[j] :
                                    m[i][j][a][b] <=> (qm[i][a] \/ cm[j][b])
            /\ ~both =>
                ret.out = distance_tensor_redux(
                    ret.dist4, DistancesStrategy(args.redux_strategy), None)

\* both masks given, with masked and unmasked entries in the combined mask
C2_Witness ==
    /\ DistancesDone
    /\ ~IsNone(args.qmask)
    /\ ~IsNone(args.cmask)
    /\ ~IsNone(ret.mask)
    /\ Size1(args.q) > 1
    /\ \E i \in DOMAIN args.q, j \in DOMAIN args.c :
        \E a, a2 \in DOMAIN args.q[i], b \in DOMAIN args.c[j] :
            /\ Val(ret.mask)[i][j][a][b]
            /\ ~Val(ret.mask)[i][j][a2][b]
            /\ Val(args.qmask)[i][a] # Val(args.cmask)[j][b]

---------------------------------------------------------------------------
(* Claims about Model.loss.                                                *)

LossDone == pc = "done" /\ op = "loss"

\* the mean over the shingle pairs of items i and j of z
MeanEuc(z, i, j) ==
    LET P == (DOMAIN z[i]) \X (DOMAIN z[j])
    IN  RDivInt(RSum([p \in P |-> EucDist(z[i][p[1]], z[j][p[2]])], P), Cardinality(P))

MeanDot(z, i, j) ==
    LET P == (DOMAIN z[i]) \X (DOMAIN z[j])
    IN  RDivInt(RSum([p \in P |-> DotSim(z[i][p[1]], z[j][p[2]])], P), Cardinality(P))

\* the positives and the negatives of anchor i
Positives(label, i) == {j \in DOMAIN label : j # i /\ label[j] = label[i]}

Negatives(label, i) == {j \in DOMAIN label : label[j] # label[i]}

\* the greatest and the least element of a finite set of rationals
Greatest(S) == CHOOSE m \in S : \A v \in S : RLe(v, m)

Least(S) == CHOOSE m \in S : \A v \in S : RLe(m, v)

\* C3: the triplet term of an anchor with a positive and a negative is
\* max(0, dpos - dneg + margin), dpos its largest mean Euclidean distance to
\* a positive and dneg its smallest to a negative; loss_trip is the mean of
\* the B terms, is not negative, and is zero exactly when every anchor has
\* dneg >= dpos + margin.
C3_BatchHardTriplet ==
    LossDone =>
        LET label == args.label
            z == args.z
            I == DOMAIN label
        IN  /\ \A i \in I :
                (Positives(label, i) # {} /\ Negatives(label, i) # {}) =>
                    LET dpos == Greatest({MeanEuc(z, i, j) : j \in Positives(label, i)})
                        dneg == Least({MeanEuc(z, i, j) : j \in Negatives(label, i)})
                    IN  ret.term[i] = RMax(RInt(0), RAdd(RSub(dpos, dneg), conf.margin))
            /\ ret.logd.l_cont = RDivInt(RSum(ret.term, I), Cardinality(I))
            /\ RLe(RInt(0), ret.logd.l_cont)
            /\ (ret.logd.l_cont = RInt(0)) <=>
                   \A i \in I : RLe(RAdd(ret.dpos[i], conf.margin), ret.dneg[i])

\* C6: the positive and the negative mask partition the off-diagonal pairs
\* by label equality, are symmetric, and leave the diagonal out.
C6_MasksPartition ==
    LossDone =>
        LET label == args.label
            I == DOMAIN label
            pos == ret.positive
            neg == ret.negative
        IN  /\ DOMAIN pos = I
            /\ DOMAIN neg = I
            /\ \A i \in I :
                /\ DOMAIN pos[i] = I
                /\ DOMAIN neg[i] = I
                /\ ~pos[i][i]
                /\ ~neg[i][i]
                /\ \A j \in I :
                    /\ pos[i][j] <=> (i # j /\ label[i] = label[j])
                    /\ neg[i][j] <=> (label[i] # label[j])
                    /\ ~(pos[i][j] /\ neg[i][j])
                    /\ (i # j) => (pos[i][j] \/ neg[i][j])
                    /\ pos[i][j] <=> pos[j][i]
                    /\ neg[i][j] <=> neg[j][i]

\* an anchor with a positive and a negative
C6_Witness ==
    /\ LossDone
    /\ \E i, j, k \in DOMAIN args.label :
        /\ ret.positive[i][j]
        /\ ret.negative[i][k]

\* C7: loss_reg is the sum over the different-label pairs of the squared
\* mean dot-product similarity, divided by (their number + eps); it is 0,
\* with a positive divisor, when there is no such pair; and
\* l_main = l_cont + lamb * l_cent.
C7_RegularizerOnNegatives ==
    LossDone =>
        LET label == args.label
            z == args.z
            N == {p \in (DOMAIN label) \X (DOMAIN label) : label[p[1]] # label[p[2]]}
            sq == [p \in N |-> RMul(MeanDot(z, p[1], p[2]), MeanDot(z, p[1], p[2]))]
        IN  /\ ret.regden.n > 0
            /\ ret.regden = R(Cardinality(N) * EpsInv + 1, EpsInv)
            /\ ret.logd.l_cent = RDiv(RSum(sq, N), ret.regden)
            /\ (N = {}) => ret.logd.l_cent = RInt(0)
            /\ ret.logd.l_main = RAdd(ret.logd.l_cont, RMul(conf.lamb, ret.logd.l_cent))
            /\ ret.loss = ret.logd.l_main

\* negative pairs with a nonzero regularizer, beside a same-label pair of
\* nonzero similarity
C7_Witness ==
    /\ LossDone
    /\ ret.logd.l_cent.n > 0
    /\ \E i, j, k \in DOMAIN args.label :
        /\ ret.negative[i][k]
        /\ ret.positive[i][j]
        /\ MeanDot(args.z, i, j).n # 0

\* C8: dlimit exceeds every mean-reduced distance of the batch, so dneg of
\* an anchor with a negative is its distance to one of its negatives and
\* dpos of an anchor with a positive is its distance to one of its
\* positives, for every embedding dimension.
C8_SentinelAboveDistances ==
    LossDone =>
        LET label == args.label
            z == args.z
            I == DOMAIN label
        IN  /\ \A i, j \in I : RLt(MeanEuc(z, i, j), ret.dlimit)
            /\ \A i \in I :
                /\ (Negatives(label, i) # {}) =>
                       ret.dneg[i] = Least({MeanEuc(z, i, j) : j \in Negatives(label, i)})
                /\ (Positives(label, i) # {}) =>
                       ret.dpos[i] = Greatest({MeanEuc(z, i, j) : j \in Positives(label, i)})

---------------------------------------------------------------------------
(* Claims about Model.prepare.                                             *)

PrepareDone == pc = "done" /\ op = "prepare"

\* C5: every shingle handed to the CQT has at least int(sr * conf.shingling.len)
\* samples, whatever the shingle_len override; a longer shingle keeps its
\* int(sr * shingle_len) samples; the samples added to reach the minimum
\* are zeros after the samples of the frame.
C5_MinimumLength ==
    PrepareDone =>
        LET least == IntOf(RMul(RInt(SR), conf.len))
            win == IntOf(RMul(RInt(SR), ret.slen))
            hop == IntOf(RMul(RInt(SR), ret.shop))
            h == args.h
        IN  \A i \in DOMAIN ret.shingles : \A f \in DOMAIN ret.shingles[i] :
                LET x == ret.shingles[i][f]
                IN  /\ Len(x) >= least
                    /\ Len(x) = Max2(win, least)
                    /\ (win > least) => Len(x) = win
                    /\ \A t \in 1..Len(x) :
                        /\ (t > win) => x[t] = 0
                        /\ (t <= win /\ f * hop + t <= Len(h[i])) => x[t] = h[i][f * hop + t]
                        /\ (t <= win /\ f * hop + t > Len(h[i])) => x[t] = 0

\* an override shorter than the minimum, on a waveform of several frames
C5_Witness ==
    /\ PrepareDone
    /\ ~IsNone(args.shingle_len)
    /\ IntOf(RMul(RInt(SR), ret.slen)) < IntOf(RMul(RInt(SR), conf.len))
    /\ Size1(ret.shingles) > 1
    /\ \E t \in 1..Len(ret.shingles[0][1]) : ret.shingles[0][1][t] # 0

\* C10: an input that is not 2-dimensional, a given shingle_len <= 0 or a
\* given shingle_hop <= 0 fails an assertion before any framing, padding or
\* CQT; a None shingle_len or shingle_hop resolves to conf.shingling.len or
\* conf.shingling.hop, the pair get_shingle_params() returns.
C10_ArgumentValidation ==
    /\ (op = "prepare") =>
        LET bad == \/ args.ndim # 2
                   \/ ~IsNone(args.shingle_len) /\ Val(args.shingle_len).n <= 0
                   \/ ~IsNone(args.shingle_hop) /\ Val(args.shingle_hop).n <= 0
        IN  /\ bad => /\ pc = "failed"
                      /\ ret.error = "AssertionError"
                      /\ ret.stages = <<>>
            /\ ~bad => /\ pc = "done"
                       /\ ret.stages # <<>>
                       /\ ret.slen = IF IsNone(args.shingle_len) THEN conf.len
                                     ELSE Val(args.shingle_len)
                       /\ ret.shop = IF IsNone(args.shingle_hop) THEN conf.hop
                                     ELSE Val(args.shingle_hop)
    /\ (op = "get_shingle_params") => ret = <<conf.len, conf.hop>>

\* a 2-dimensional input refused for its zero shingle_len alone
C10_Witness ==
    /\ op = "prepare"
    /\ pc = "failed"
    /\ args.ndim = 2
    /\ ~IsNone(args.shingle_len)
    /\ Val(args.shingle_len).n = 0
    /\ IsNone(args.shingle_hop)

---------------------------------------------------------------------------
(* Claims about Model.embed and Model.forward.                             *)

EmbedDone == pc = "done" /\ (op = "embed" \/ op = "forward")

\* the embedding e has Euclidean norm 1
UnitNorm(e) == SqNormR(e.vec) = e.den2

C9_ShingleCorrespondence ==
    /\ (pc = "done" /\ op = "embed") =>
        /\ DOMAIN ret.out = DOMAIN args.h
        /\ \A i \in DOMAIN args.h :
            /\ DOMAIN ret.out[i] = DOMAIN args.h[i]
            /\ \A a \in DOMAIN args.h[i] :
                /\ ret.out[i][a] = EmbedRow(args.h[i][a])
                /\ Len(ret.out[i][a].vec) = Len(weights.fcw)
    /\ (pc = "done" /\ op = "forward") =>
        LET par == PrepareParams(args.shingle_len, args.shingle_hop)
            win == IntOf(RMul(RInt(SR), par.slen))
            hop == IntOf(RMul(RInt(SR), par.shop))
            least == IntOf(RMul(RInt(SR), conf.len))
        IN  /\ DOMAIN ret.out = DOMAIN args.h
            /\ \A i \in DOMAIN args.h :
                LET fr == FramesOf(args.h[i], win, hop)
                IN  /\ DOMAIN ret.out[i] = DOMAIN fr
                    /\ \A f \in DOMAIN fr :
                        ret.out[i][f] = EmbedRow(CqtPool(ForceRow(fr[f], least, TRUE)))

\* several items of several shingles each, with embeddings that differ
C9_Witness ==
    /\ pc = "done"
    /\ op = "embed"
    /\ Size0(args.h) > 1
    /\ Size1(args.h) > 1
    /\ ret.out[0][1] # ret.out[1][0]
    /\ ret.out[0][0] # ret.out[0][1]

---------------------------------------------------------------------------
(* Specifications.                                                         *)

NoConf == [margin |-> RInt(0), lamb |-> RInt(0), len |-> RInt(1), hop |-> RInt(1)]

NoWeights == [shift |-> RInt(0), fcw |-> <<1, 0>>, fcb |-> <<0, 0>>]

InitDistances ==
    /\ pc = "idle"
    /\ op = "new"
    /\ conf = NoConf
    /\ weights = NoWeights
    /\ args = <<>>
    /\ ret = <<>>

SpecDistances == InitDistances /\ [][CallDistances]_vars

\* conf.shingling.len and conf.shingling.hop of the configurations tried,
\* in seconds
ShingleConfs ==
    {[margin |-> RInt(0), lamb |-> RInt(0), len |-> l, hop |-> h] :
        l \in {RInt(1), R(5, 3)}, h \in {R(1, 3), RInt(1)}}

InitPrepare ==
    /\ pc = "idle"
    /\ op = "new"
    /\ conf \in ShingleConfs
    /\ weights = NoWeights
    /\ args = <<>>
    /\ ret = <<>>

SpecPrepare == InitPrepare /\ [][CallPrepare \/ CallGetShingleParams]_vars

\* the weights tried: the batch-norm shift, and fc's weight and bias
WeightSets ==
    {[shift |-> RInt(sh), fcw |-> w, fcb |-> b] :
        sh \in {-1, 0}, w \in {<<1, 0>>, <<2, -1>>}, b \in {<<0, 0>>, <<0, 1>>}}

InitEmbed ==
    /\ pc = "idle"
    /\ op = "new"
    /\ conf = [margin |-> RInt(0), lamb |-> RInt(0), len |-> RInt(1), hop |-> R(2, 3)]
    /\ weights \in WeightSets
    /\ args = <<>>
    /\ ret = <<>>

SpecEmbed == InitEmbed /\ [][CallEmbed \/ CallForward]_vars

\* conf.margin and conf.lamb of the configurations tried
LossConfs ==
    {[margin |-> R(3, 10), lamb |-> R(1, 2), len |-> RInt(1), hop |-> RInt(1)],
     [margin |-> RInt(5), lamb |-> RInt(2), len |-> RInt(1), hop |-> RInt(1)]}

InitLoss ==
    /\ pc = "idle"
    /\ op = "new"
    /\ conf \in LossConfs
    /\ weights = NoWeights
    /\ args = <<>>
    /\ ret = <<>>

SpecLoss == InitLoss /\ [][CallLoss]_vars

====
